---- MODULE Spec2Model ----
(***************************************************************************)
(* State-machine model of src/app.js, the static SAT question browser:     *)
(* session start (state construction, main), the manifest and chunk        *)
(* fetches with their suspension points, normalization, the filter         *)
(* controls, the pager, shuffle, show-starred, the star and choice         *)
(* handlers and the two localStorage keys.                                 *)
(*                                                                         *)
(* JavaScript strings are TLA+ strings.  A JavaScript value of a raw or    *)
(* normalized record is tagged with its type, so that truthiness (||),     *)
(* typeof and === are computed as the language computes them.              *)
(***************************************************************************)
EXTENDS Integers, Sequences, FiniteSets, TLC

VARIABLES
  pc,        \* position of the script / of main(): see the state machine
  storage,   \* localStorage: the values under keys "starred" and "history"
  server,    \* the name of the site the page is served from (fixed per run)
  questions, \* state.questions
  filtered,  \* state.filtered
  page,      \* state.page
  starred,   \* state.starred, a JS Set: its members in insertion order
  history,   \* state.history
  controls,  \* the values of the inputs q, f_module, f_domain, f_diff
  manifest,  \* main's local: the manifest returned by loadManifest
  arrays,    \* loadAllChunks' local: the records pushed so far
  idx,       \* loadAllChunks' loop position in manifest.chunks (0-based)
  inflight,  \* the URLs requested whose response main() has not consumed yet
  clock      \* Date.now(), counted in clicks

vars == <<pc, storage, server, questions, filtered, page, starred, history,
          controls, manifest, arrays, idx, inflight, clock>>

(***************************************************************************)
(* Bounds of the model and constants of the program.                       *)
(***************************************************************************)
\* state.pageSize
pageSize == 10
\* the window of saveHistory's slice(-200)
HistoryCap == 200
\* choice clicks modelled per session
MaxClock == 2
\* Math.random() is quantized to the values k / RandGrid, k in 0..RandGrid-1
RandGrid == 2
\* a shuffle draws its random values cyclically from RandPeriod free values
RandPeriod == 2

(***************************************************************************)
(* JavaScript values.                                                      *)
(***************************************************************************)
Undefined == [t |-> "undefined"]
Null == [t |-> "null"]
Str(s) == [t |-> "string", v |-> s]
Num(n) == [t |-> "number", v |-> n]
Arr(a) == [t |-> "array", v |-> a]

\* ToBoolean: undefined, null, "" and 0 are falsy; every array is truthy
Truthy(x) ==
  CASE x.t = "string" -> x.v # ""
    [] x.t = "number" -> x.v # 0
    [] x.t = "array" -> TRUE
    [] OTHER -> FALSE

\* a || b
Or(a, b) == IF Truthy(a) THEN a ELSE b

\* a === b for primitives
StrictEq(a, b) ==
  /\ a.t = b.t
  /\ a.t \in {"string", "number"} => a.v = b.v

(***************************************************************************)
(* String methods.                                                         *)
(***************************************************************************)
UpperLetters == "ABCDEFGHIJKLMNOPQRSTUVWXYZ"
LowerLetters == "abcdefghijklmnopqrstuvwxyz"

CharAt(s, i) == SubSeq(s, i, i)

\* the lower-case form of each upper-case letter
LowerOf == [i \in 1..Len(UpperLetters) |-> CharAt(LowerLetters, i)]
UpperSet == {CharAt(UpperLetters, i) : i \in 1..Len(UpperLetters)}
UpperIndex == [c \in UpperSet |-> CHOOSE i \in 1..Len(UpperLetters) : CharAt(UpperLetters, i) = c]

LowerChar(c) == IF c \in UpperSet THEN LowerOf[UpperIndex[c]] ELSE c

RECURSIVE toLowerCase(_)
toLowerCase(s) ==
  IF Len(s) = 0 THEN ""
  ELSE LowerChar(CharAt(s, 1)) \o toLowerCase(SubSeq(s, 2, Len(s)))

RECURSIVE trimStart(_)
trimStart(s) ==
  IF Len(s) > 0 /\ CharAt(s, 1) = " " THEN trimStart(SubSeq(s, 2, Len(s))) ELSE s

RECURSIVE trimEnd(_)
trimEnd(s) ==
  IF Len(s) > 0 /\ CharAt(s, Len(s)) = " " THEN trimEnd(SubSeq(s, 1, Len(s) - 1)) ELSE s

trim(s) == trimEnd(trimStart(s))

\* hay.includes(needle)
includes(hay, needle) ==
  \E i \in 1..(Len(hay) - Len(needle) + 1) : SubSeq(hay, i, i + Len(needle) - 1) = needle

(***************************************************************************)
(* Array and Set methods.                                                  *)
(***************************************************************************)
Min(a, b) == IF a < b THEN a ELSE b
Max(a, b) == IF a > b THEN a ELSE b

\* arr.slice(from, to) with 0 <= from <= to: both ends are clamped to the length
slice(arr, from, to) == SubSeq(arr, Min(from, Len(arr)) + 1, Min(to, Len(arr)))

\* arr.slice(-n)
sliceLast(arr, n) == SubSeq(arr, Max(0, Len(arr) - n) + 1, Len(arr))

\* set.has(id), for a Set kept as the sequence of its members in insertion order
SetHas(set, id) == \E i \in 1..Len(set) : set[i] = id

\* set.add(id): a new member goes last, a present one keeps its place
SetAdd(set, id) == IF SetHas(set, id) THEN set ELSE Append(set, id)

\* set.delete(id)
SetDelete(set, id) == SelectSeq(set, LAMBDA m : m # id)

\* new Set(array): duplicates collapse onto their first occurrence
RECURSIVE NewSetFrom(_, _)
NewSetFrom(set, arr) ==
  IF arr = <<>> THEN set ELSE NewSetFrom(SetAdd(set, Head(arr)), Tail(arr))

NewSet(arr) == NewSetFrom(<<>>, arr)

\* Array.from(set)
ArrayFrom(set) == set

(***************************************************************************)
(* localStorage and JSON.  A stored text is the document it spells: the    *)
(* JSON text of an array, or a text JSON.parse rejects; a key may be       *)
(* missing.  Stored JSON values that are not arrays are not modelled.      *)
(***************************************************************************)
Missing == [kind |-> "missing"]
Garbage == [kind |-> "garbage"]

\* JSON.stringify(value), and the text of a served JSON resource
JSONstringify(value) == [kind |-> "json", value |-> value]

\* localStorage.getItem(key) || "[]"
getItemOrEmpty(key) ==
  IF storage[key].kind = "missing" THEN JSONstringify(<<>>) ELSE storage[key]

\* JSON.parse(text): throws on a text that is not JSON
JSONparse(text) ==
  IF text.kind = "json" THEN [ok |-> TRUE, value |-> text.value]
  ELSE [ok |-> FALSE, value |-> <<>>]

\* saveStarred(): the value written under "starred"
saveStarred(set) == JSONstringify(ArrayFrom(set))

\* saveHistory() keeping the first entries of the log instead of the last
saveHistory_Oldest(log) == JSONstringify(slice(log, 0, HistoryCap))

\* saveHistory(): the value written under "history"
saveHistory(log) == JSONstringify(sliceLast(log, HistoryCap))

(***************************************************************************)
(* Corpus loader.                                                          *)
(***************************************************************************)
ManifestUrl == "data/manifest.json"

\* main's local manifest while it holds nothing
NoManifest == [version |-> 0, chunks |-> <<>>]

\* loadManifest's catch branch
FallbackManifest == [version |-> 1, chunks |-> <<[path |-> "data/sample.json"]>>]

\* the template literal `data/${c.path}`
ChunkUrl(c) == "data/" \o c.path

\* a URL the site does not serve answers 404 with an HTML body
NotFound == [net |-> "ok", ok |-> FALSE, body |-> Garbage]
NetworkError == [net |-> "error"]
Ok(body) == [net |-> "ok", ok |-> TRUE, body |-> body]


RawFields ==
  {"uId", "id", "questionId", "module", "category", "primary_class_cd_desc",
   "domain", "skill_cd", "skill_desc", "difficulty", "diff",
   "score_band_range_cd", "band", "stem_html", "stem", "question_html",
   "choices", "options", "correct_choice_index", "answer_index",
   "explanation_html", "explanation"}

\* the object literal with the correct index resolved by || like the other fields
normalize_IndexByOr(x) ==
  [uId |-> Or(Or(x.uId, x.id), x.questionId),
   questionId |-> Or(Or(x.questionId, x.id), x.uId),
   module |-> Or(x.module,
                 IF Truthy(x.category) /\ includes(toLowerCase(x.category.v), "math")
                   THEN Str("math") ELSE Str("reading-writing")),
   primary_class_cd_desc |-> Or(Or(x.primary_class_cd_desc, x.domain), Str("")),
   skill_cd |-> Or(x.skill_cd, Str("")),
   skill_desc |-> Or(x.skill_desc, Str("")),
   difficulty |-> Or(Or(x.difficulty, x.diff), Str("")),
   score_band_range_cd |-> Or(Or(x.score_band_range_cd, x.band), Null),
   stem_html |-> Or(Or(Or(x.stem_html, x.stem), x.question_html), Str("")),
   choices |-> Or(Or(x.choices, x.options), Null),
   correct_choice_index |-> Or(Or(x.correct_choice_index, x.answer_index), Null),
   explanation_html |-> Or(Or(x.explanation_html, x.explanation), Str(""))]

\* the object literal of main's items.map
normalize(x) ==
  [uId |-> Or(Or(x.uId, x.id), x.questionId),
   questionId |-> Or(Or(x.questionId, x.id), x.uId),
   module |-> Or(x.module,
                 IF Truthy(x.category) /\ includes(toLowerCase(x.category.v), "math")
                   THEN Str("math") ELSE Str("reading-writing")),
   primary_class_cd_desc |-> Or(Or(x.primary_class_cd_desc, x.domain), Str("")),
   skill_cd |-> Or(x.skill_cd, Str("")),
   skill_desc |-> Or(x.skill_desc, Str("")),
   difficulty |-> Or(Or(x.difficulty, x.diff), Str("")),
   score_band_range_cd |-> Or(Or(x.score_band_range_cd, x.band), Null),
   stem_html |-> Or(Or(Or(x.stem_html, x.stem), x.question_html), Str("")),
   choices |-> Or(Or(x.choices, x.options), Null),
   correct_choice_index |->
     IF x.correct_choice_index.t = "number" THEN x.correct_choice_index
     ELSE IF x.answer_index.t = "number" THEN x.answer_index ELSE Null,
   explanation_html |-> Or(Or(x.explanation_html, x.explanation), Str(""))]

Map(f(_), arr) == [i \in 1..Len(arr) |-> f(arr[i])]

\* items.map(normalize) without the filter
normalizeAll_KeepAll(items) == Map(normalize, items)

\* items.map(normalize).filter(x => !!x.uId)
normalizeAll(items) == SelectSeq(Map(normalize, items), LAMBDA q : Truthy(q.uId))

(***************************************************************************)
(* Pager.                                                                  *)
(***************************************************************************)
\* paginate(arr) with the end of the slice one short
paginate_ShortPage(arr, p) ==
  LET start == (p - 1) * pageSize
  IN slice(arr, start, start + pageSize - 1)

\* paginate(arr), with state.page passed as p
paginate(arr, p) ==
  LET start == (p - 1) * pageSize
  IN slice(arr, start, start + pageSize)

\* Math.max(1, Math.ceil(arr.length / state.pageSize))
totalPages(arr) == Max(1, (Len(arr) + pageSize - 1) \div pageSize)

\* the items render() has put on the page: every handler that changes
\* state.filtered or state.page ends with render()
Rendered == paginate(filtered, page)

(***************************************************************************)
(* Filter.                                                                 *)
(***************************************************************************)
\* apply() with the text searched in the stem alone
applyFilter_StemOnly(qs, c) ==
  LET text == toLowerCase(trim(c.q))
      moduleV == c.f_module
      domainV == toLowerCase(trim(c.f_domain))
      diffV == c.f_diff
      arr == SelectSeq(qs, LAMBDA x :
               /\ ~(moduleV # "" /\ ~StrictEq(x.module, Str(moduleV)))
               /\ ~(domainV # "" /\
                    ~includes(toLowerCase(Or(x.primary_class_cd_desc, Str("")).v), domainV))
               /\ ~(diffV # "" /\ ~StrictEq(x.difficulty, Str(diffV))))
  IN IF text # ""
       THEN SelectSeq(arr, LAMBDA x : includes(toLowerCase(Or(x.stem_html, Str("")).v), text))
       ELSE arr

\* the two filter passes of apply() over state.questions
applyFilter(qs, c) ==
  LET text == toLowerCase(trim(c.q))
      moduleV == c.f_module
      domainV == toLowerCase(trim(c.f_domain))
      diffV == c.f_diff
      arr == SelectSeq(qs, LAMBDA x :
               /\ ~(moduleV # "" /\ ~StrictEq(x.module, Str(moduleV)))
               /\ ~(domainV # "" /\
                    ~includes(toLowerCase(Or(x.primary_class_cd_desc, Str("")).v), domainV))
               /\ ~(diffV # "" /\ ~StrictEq(x.difficulty, Str(diffV))))
  IN IF text # ""
       THEN SelectSeq(arr, LAMBDA x :
              \/ includes(toLowerCase(Or(x.stem_html, Str("")).v), text)
              \/ includes(toLowerCase(Or(x.skill_desc, Str("")).v), text))
       ELSE arr

(***************************************************************************)
(* Shuffle.                                                                *)
(***************************************************************************)
RandomStreams == [0..(RandPeriod - 1) -> 0..(RandGrid - 1)]

\* the swap written as two assignments without a temporary
Swap_Overwrite(arr, a, b) == [arr EXCEPT ![a] = arr[b]]

\* [arr[i], arr[j]] = [arr[j], arr[i]]
Swap(arr, a, b) == [arr EXCEPT ![a] = arr[b], ![b] = arr[a]]

\* the Fisher-Yates loop of shufflePractice from index i (0-based) down to 1;
\* d counts the calls of Math.random() so far
RECURSIVE fisherYates(_, _, _, _)
fisherYates(arr, i, d, rs) ==
  IF i > 0
    THEN LET j == (rs[d % RandPeriod] * (i + 1)) \div RandGrid
         IN fisherYates(Swap(arr, i + 1, j + 1), i - 1, d + 1, rs)
    ELSE arr

\* [...state.questions] shuffled, then slice(0, 10)
shuffled(qs, rs) == slice(fisherYates(qs, Len(qs) - 1, 0, rs), 0, 10)

(***************************************************************************)
(* The sites and the stored values a session may start from.               *)
(***************************************************************************)
Raw(o) == [f \in RawFields |-> IF f \in DOMAIN o THEN o[f] ELSE Undefined]

\* a record in the canonical shape; it has no choices
RawModern ==
  Raw([uId |-> Str("q1"), questionId |-> Str("M-1"), module |-> Str("math"),
       primary_class_cd_desc |-> Str("Algebra"), skill_desc |-> Str("Linear"),
       difficulty |-> Str("M"), stem_html |-> Str("Solve x"),
       correct_choice_index |-> Num(0), answer_index |-> Num(1)])

\* a record under legacy field names, without choices
RawDomain ==
  Raw([id |-> Str("q2"), category |-> Str("SAT Math"), domain |-> Str("Geometry"),
       diff |-> Str("H"), stem |-> Str("Area")])

\* a record carrying only the legacy field names
RawLegacy ==
  Raw([id |-> Str("q2"), category |-> Str("SAT Math"), domain |-> Str("Geometry"),
       diff |-> Str("H"), stem |-> Str("Area"),
       options |-> Arr(<<"A", "B">>), answer_index |-> Num(1)])

\* a record identified by questionId alone, its uId empty; it has no choices
RawByQuestionId ==
  Raw([uId |-> Str(""), questionId |-> Str("q3"), category |-> Str("Reading"),
       primary_class_cd_desc |-> Str("Craft"), skill_desc |-> Str("Words"),
       difficulty |-> Str("H"), question_html |-> Str("Which line?")])

\* a record with one choice and no correct index: its answer_index is a string
RawNoIndex ==
  Raw([uId |-> Str("q2"), module |-> Str("math"), stem_html |-> Str("Pick"),
       choices |-> Arr(<<"A">>), answer_index |-> Str("1")])

\* a record with no identifier at all: uId empty, id null, questionId absent
RawOrphan ==
  Raw([uId |-> Str(""), id |-> Null, stem |-> Str("orphan"), module |-> Str("math")])

\* questions of a corpus of more than two pages: two identifiers repeat
BigSize == 2 * pageSize + 1
RawBig(i) ==
  Raw([uId |-> Str(CharAt("ab", (i % 2) + 1)),
       module |-> Str(IF i <= 2 * pageSize THEN "math" ELSE "reading-writing"),
       primary_class_cd_desc |-> Str("Algebra"),
       difficulty |-> Str(IF i <= pageSize + 1 THEN "H" ELSE "M"),
       stem_html |-> Str("Solve x")])

ManifestOf(paths) ==
  JSONstringify([version |-> 1, chunks |-> [i \in 1..Len(paths) |-> [path |-> paths[i]]]])

SampleData == "data/sample.json" :> Ok(JSONstringify(<<RawModern>>))

TwoChunks == ManifestOf(<<"chunks/part-000.json", "chunks/part-001.json">>)

SiteOk ==
  (ManifestUrl :> Ok(TwoChunks))
  @@ ("data/chunks/part-000.json" :> Ok(JSONstringify(<<RawModern, RawDomain>>)))
  @@ ("data/chunks/part-001.json" :> Ok(JSONstringify(<<RawOrphan, RawByQuestionId>>)))
  @@ SampleData

\* the manifest request fails on the network, answers 404, or answers a
\* body that is not JSON; the bundled sample is where the repository has it
SiteManifestDown == (ManifestUrl :> NetworkError) @@ SampleData
SiteManifestMissing == SampleData
SiteManifestBroken == (ManifestUrl :> Ok(Garbage)) @@ SampleData

\* the second chunk fails on the network, or is not served
SiteChunkDown == ("data/chunks/part-001.json" :> NetworkError) @@ SiteOk
SiteChunkMissing ==
  (ManifestUrl :> Ok(TwoChunks))
  @@ ("data/chunks/part-000.json" :> Ok(JSONstringify(<<RawModern, RawDomain>>)))

SiteEmpty == ManifestUrl :> Ok(ManifestOf(<<>>))

SiteBig ==
  (ManifestUrl :> Ok(ManifestOf(<<"chunks/part-000.json", "chunks/part-001.json",
                                   "chunks/part-002.json">>)))
  @@ ("data/chunks/part-000.json" :> Ok(JSONstringify([i \in 1..pageSize |-> RawBig(i)])))
  @@ ("data/chunks/part-001.json" :>
        Ok(JSONstringify([i \in 1..pageSize |-> RawBig(pageSize + i)])))
  @@ ("data/chunks/part-002.json" :> Ok(JSONstringify(<<RawBig(BigSize)>>)))

\* two questions with choices, under the same identifier
SiteQuiz ==
  (ManifestUrl :> Ok(ManifestOf(<<"chunks/part-000.json">>)))
  @@ ("data/chunks/part-000.json" :> Ok(JSONstringify(<<RawLegacy, RawNoIndex>>)))

SiteOne ==
  (ManifestUrl :> Ok(ManifestOf(<<"chunks/part-000.json">>)))
  @@ ("data/chunks/part-000.json" :> Ok(JSONstringify(<<RawNoIndex>>)))

\* the sites by name, and what a site answers to a fetch of a URL
Sites ==
  [SiteOk |-> SiteOk, SiteManifestDown |-> SiteManifestDown,
   SiteManifestMissing |-> SiteManifestMissing, SiteManifestBroken |-> SiteManifestBroken,
   SiteChunkDown |-> SiteChunkDown, SiteChunkMissing |-> SiteChunkMissing,
   SiteEmpty |-> SiteEmpty, SiteBig |-> SiteBig, SiteQuiz |-> SiteQuiz,
   SiteOne |-> SiteOne]

fetch(url) == IF url \in DOMAIN Sites[server] THEN Sites[server][url] ELSE NotFound

\* the site's manifest request fails: on the network, by status, or by body
ManifestFails ==
  LET res == fetch(ManifestUrl)
  IN res.net = "error" \/ ~res.ok \/ res.body.kind # "json"

\* a history log left by earlier sessions: n attempts, made before this session
PriorHistory(n) ==
  [i \in 1..n |-> [id |-> Str("q2"), correct |-> (i % 2 = 0), ts |-> i - n - 1]]

Store(s, h) == [starred |-> s, history |-> h]

Scenarios ==
  {<<"SiteOk", Store(Missing, Missing)>>,
   <<"SiteOk", Store(Garbage, Missing)>>,
   <<"SiteOk", Store(JSONstringify(<<>>), Garbage)>>,
   <<"SiteOk", Store(JSONstringify(<<Str("q1"), Str("q2")>>), Missing)>>,
   <<"SiteManifestDown", Store(Missing, Missing)>>,
   <<"SiteManifestMissing", Store(Missing, Missing)>>,
   <<"SiteManifestBroken", Store(Missing, Missing)>>,
   <<"SiteChunkDown", Store(Missing, Missing)>>,
   <<"SiteChunkMissing", Store(Missing, Missing)>>,
   <<"SiteEmpty", Store(Missing, Missing)>>,
   <<"SiteBig", Store(Missing, Missing)>>,
   <<"SiteQuiz", Store(Missing, Missing)>>,
   <<"SiteOne", Store(Missing, JSONstringify(PriorHistory(HistoryCap - 1)))>>,
   <<"SiteOne", Store(Missing, JSONstringify(PriorHistory(HistoryCap)))>>}

\* what the user may type or select
QInputs == {"", " Lin "}
ModuleInputs == {"", "math"}
DomainInputs == {"", "ALG "}
DiffInputs == {"", "H"}
Keys == {"/", "r", "S"}

(***************************************************************************)
(* The state machine.                                                      *)
(*                                                                         *)
(* pc: "start"          the script has not run yet                         *)
(*     "crashed"        the construction of state threw                    *)
(*     "manifest_fetch" loadManifest awaits fetch                          *)
(*     "manifest_json"  loadManifest awaits res.json()                     *)
(*     "chunk_fetch"    loadAllChunks awaits fetch                         *)
(*     "chunk_json"     loadAllChunks awaits res.json()                    *)
(*     "done"           main has returned                                  *)
(*     "failed"         main has rejected                                  *)
(***************************************************************************)
Init ==
  /\ pc = "start"
  /\ \E sc \in Scenarios : server = sc[1] /\ storage = sc[2]
  /\ questions = <<>>
  /\ filtered = <<>>
  /\ page = 1
  /\ starred = <<>>
  /\ history = <<>>
  /\ controls = [q |-> "", f_module |-> "", f_domain |-> "", f_diff |-> ""]
  /\ manifest = NoManifest
  /\ arrays = <<>>
  /\ idx = 0
  /\ inflight = {}
  /\ clock = 0

\* the handlers are registered by mountFilters and mountPager, at the start of main
Mounted == pc \notin {"start", "crashed"}

\* the script runs: the state object is built, then main() runs to its first await
Start ==
  /\ pc = "start"
  /\ LET s == JSONparse(getItemOrEmpty("starred"))
         h == JSONparse(getItemOrEmpty("history"))
     IN IF s.ok /\ h.ok
          THEN /\ starred' = NewSet(s.value)
               /\ history' = h.value
               /\ pc' = "manifest_fetch"
               /\ inflight' = {ManifestUrl}
          ELSE /\ pc' = "crashed"
               /\ UNCHANGED <<starred, history, inflight>>
  /\ UNCHANGED <<storage, server, questions, filtered, page, controls, manifest,
                 arrays, idx, clock>>

\* main showing, at the end of the load, what the filter controls select
mainFinishes_Filtered(items) ==
  /\ questions' = normalizeAll(items)
  /\ filtered' = applyFilter(questions', controls)
  /\ pc' = "done"
  /\ inflight' = {}
  /\ UNCHANGED page

\* main after loadAllChunks has returned items: normalize, show everything, render
mainFinishes(items) ==
  /\ questions' = normalizeAll(items)
  /\ filtered' = questions'
  /\ pc' = "done"
  /\ inflight' = {}
  /\ UNCHANGED page

\* a loader that pushes into state.questions as it goes keeps what it fetched
mainRejects_KeepsPartial ==
  /\ pc' = "failed"
  /\ inflight' = {}
  /\ manifest' = NoManifest
  /\ idx' = 0
  /\ arrays' = <<>>
  /\ questions' = normalizeAll(arrays)
  /\ filtered' = questions'
  /\ UNCHANGED page

\* an exception leaves loadAllChunks and main: nothing of state is assigned
mainRejects ==
  /\ pc' = "failed"
  /\ inflight' = {}
  /\ manifest' = NoManifest
  /\ idx' = 0
  /\ arrays' = <<>>
  /\ UNCHANGED <<questions, filtered, page>>

\* the loop issuing the fetches of all remaining chunks before awaiting any
chunkLoop_FanOut(m, i, items) ==
  IF i < Len(m.chunks)
    THEN /\ manifest' = m
         /\ idx' = i
         /\ arrays' = items
         /\ pc' = "chunk_fetch"
         /\ inflight' = {ChunkUrl(m.chunks[k]) : k \in (i + 1)..Len(m.chunks)}
         /\ UNCHANGED <<questions, filtered, page>>
    ELSE /\ manifest' = NoManifest
         /\ idx' = 0
         /\ arrays' = <<>>
         /\ mainFinishes(items)

\* the head of loadAllChunks' loop with i chunks done and items pushed so far;
\* the locals are gone once the loop is left
chunkLoop(m, i, items) ==
  IF i < Len(m.chunks)
    THEN /\ manifest' = m
         /\ idx' = i
         /\ arrays' = items
         /\ pc' = "chunk_fetch"
         /\ inflight' = {ChunkUrl(m.chunks[i + 1])}
         /\ UNCHANGED <<questions, filtered, page>>
    ELSE /\ manifest' = NoManifest
         /\ idx' = 0
         /\ arrays' = <<>>
         /\ mainFinishes(items)

\* loadManifest: the fetch of the manifest settles
ManifestFetchSettles ==
  /\ pc = "manifest_fetch"
  /\ \E url \in inflight :
     LET res == fetch(url)
     IN IF res.net = "error" \/ ~res.ok
          THEN chunkLoop(FallbackManifest, 0, <<>>)
          ELSE /\ pc' = "manifest_json"
               /\ UNCHANGED <<questions, filtered, page, manifest, arrays, idx, inflight>>
  /\ UNCHANGED <<storage, server, starred, history, controls, clock>>

\* loadManifest: res.json() settles
ManifestJsonSettles ==
  /\ pc = "manifest_json"
  /\ \E url \in inflight :
     LET body == JSONparse(fetch(url).body)
     IN IF body.ok
          THEN chunkLoop(body.value, 0, <<>>)
          ELSE chunkLoop(FallbackManifest, 0, <<>>)
  /\ UNCHANGED <<storage, server, starred, history, controls, clock>>

\* loadAllChunks: the fetch of a chunk settles
ChunkFetchSettles ==
  /\ pc = "chunk_fetch"
  /\ \E url \in inflight :
     IF fetch(url).net = "error"
       THEN mainRejects
       ELSE /\ pc' = "chunk_json"
            /\ UNCHANGED <<questions, filtered, page, manifest, arrays, idx, inflight>>
  /\ UNCHANGED <<storage, server, starred, history, controls, clock>>

\* loadAllChunks: res.json() of a chunk settles, and its records are pushed
ChunkJsonSettles ==
  /\ pc = "chunk_json"
  /\ \E url \in inflight :
     LET arr == JSONparse(fetch(url).body)
     IN IF arr.ok
          THEN chunkLoop(manifest, idx + 1, arrays \o arr.value)
          ELSE mainRejects
  /\ UNCHANGED <<storage, server, starred, history, controls, clock>>

\* apply() without its last-but-one statement, state.page = 1
apply_KeepsPage(c) ==
  /\ controls' = c
  /\ UNCHANGED <<pc, storage, server, questions, starred, history, manifest,
                 arrays, idx, inflight, clock, page>>
  /\ filtered' = applyFilter(questions, c)

\* apply(), after the controls have taken the values c
apply(c) ==
  /\ controls' = c
  /\ page' = 1
  /\ UNCHANGED <<pc, storage, server, questions, starred, history, manifest,
                 arrays, idx, inflight, clock>>
  /\ filtered' = applyFilter(questions, c)

\* input event of the search box: its value has changed to v
InputQ ==
  /\ Mounted
  /\ \E v \in QInputs : v # controls.q /\ apply([controls EXCEPT !.q = v])

\* change event of the module selector: its value has changed to v
ChangeModule ==
  /\ Mounted
  /\ \E v \in ModuleInputs : v # controls.f_module /\ apply([controls EXCEPT !.f_module = v])

\* input event of the domain box: its value has changed to v
InputDomain ==
  /\ Mounted
  /\ \E v \in DomainInputs : v # controls.f_domain /\ apply([controls EXCEPT !.f_domain = v])

\* change event of the difficulty selector: its value has changed to v
ChangeDiff ==
  /\ Mounted
  /\ \E v \in DiffInputs : v # controls.f_diff /\ apply([controls EXCEPT !.f_diff = v])

\* click on the reset button
Reset == Mounted /\ apply([q |-> "", f_module |-> "", f_domain |-> "", f_diff |-> ""])

\* shufflePractice(), with the values Math.random() returns
shufflePractice(rs) ==
  /\ page' = 1
  /\ UNCHANGED <<pc, storage, server, questions, starred, history, controls,
                 manifest, arrays, idx, inflight, clock>>
  /\ filtered' = shuffled(questions, rs)

\* showStarred() selecting from the subset on display instead of the collection
showStarred_FromFiltered ==
  /\ page' = 1
  /\ UNCHANGED <<pc, storage, server, questions, starred, history, controls,
                 manifest, arrays, idx, inflight, clock>>
  /\ filtered' = SelectSeq(filtered, LAMBDA x : SetHas(starred, x.uId))

\* showStarred()
showStarred ==
  /\ page' = 1
  /\ UNCHANGED <<pc, storage, server, questions, starred, history, controls,
                 manifest, arrays, idx, inflight, clock>>
  /\ filtered' = SelectSeq(questions, LAMBDA x : SetHas(starred, x.uId))

\* click on the shuffle button
ShuffleClick == Mounted /\ \E rs \in RandomStreams : shufflePractice(rs)

\* click on the review button
ReviewClick == Mounted /\ showStarred

\* keydown on the window: "/" focuses the search box, r shuffles, s shows starred
Keydown ==
  /\ Mounted
  /\ \E key \in Keys :
       IF toLowerCase(key) = "r" THEN \E rs \in RandomStreams : shufflePractice(rs)
       ELSE IF toLowerCase(key) = "s" THEN showStarred
       ELSE UNCHANGED vars

\* click on the previous-page button
PrevPage ==
  /\ Mounted
  /\ page' = Max(1, page - 1)
  /\ UNCHANGED <<pc, storage, server, questions, filtered, starred, history,
                 controls, manifest, arrays, idx, inflight, clock>>

\* the next-page handler without its Math.min
NextPage_NoClamp ==
  /\ Mounted
  /\ page' = page + 1
  /\ UNCHANGED <<pc, storage, server, questions, filtered, starred, history,
                 controls, manifest, arrays, idx, inflight, clock>>

\* click on the next-page button
NextPage ==
  /\ Mounted
  /\ page' = Min(totalPages(filtered), page + 1)
  /\ UNCHANGED <<pc, storage, server, questions, filtered, starred, history,
                 controls, manifest, arrays, idx, inflight, clock>>

\* the star handler's branch when it only ever adds
toggle_AddOnly(set, id) == SetAdd(set, id)

\* the star handler's if/else on a Set: delete a member, add a non-member
toggle(set, id) == IF SetHas(set, id) THEN SetDelete(set, id) ELSE SetAdd(set, id)

\* the star handler without saveStarred()
toggleStar_NoSave(q) ==
  /\ starred' = toggle(starred, q.uId)
  /\ UNCHANGED <<pc, storage, server, questions, filtered, page, history, controls,
                 manifest, arrays, idx, inflight, clock>>

\* the star handler also taking an un-starred question off the subset on display
toggleStar_Refilter(q) ==
  /\ starred' = toggle(starred, q.uId)
  /\ storage' = [storage EXCEPT !.starred = saveStarred(starred')]
  /\ filtered' = IF SetHas(starred, q.uId)
                   THEN SelectSeq(filtered, LAMBDA x : x.uId # q.uId)
                   ELSE filtered
  /\ UNCHANGED <<pc, server, questions, page, history, controls,
                 manifest, arrays, idx, inflight, clock>>

\* the star handler of a rendered item q
toggleStar(q) ==
  /\ starred' = toggle(starred, q.uId)
  /\ storage' = [storage EXCEPT !.starred = saveStarred(starred')]
  /\ UNCHANGED <<pc, server, questions, filtered, page, history, controls,
                 manifest, arrays, idx, inflight, clock>>

\* click on the star button of an item of the page
StarClick == Mounted /\ \E k \in 1..Len(Rendered) : toggleStar(Rendered[k])

\* the click handler reading btn.dataset.i without the unary plus: a string
chooseAnswer_NoCoercion(q, i) ==
  LET correct == StrictEq(Str(ToString(i)), q.correct_choice_index)
  IN /\ history' = Append(history, [id |-> q.uId, correct |-> correct, ts |-> clock])
     /\ storage' = [storage EXCEPT !.history = saveHistory(history')]
     /\ clock' = clock + 1
     /\ UNCHANGED <<pc, server, questions, filtered, page, starred, controls,
                    manifest, arrays, idx, inflight>>

\* the click handler of choice i (0-based) of a rendered item q
chooseAnswer(q, i) ==
  LET correct == StrictEq(Num(i), q.correct_choice_index)
  IN /\ history' = Append(history, [id |-> q.uId, correct |-> correct, ts |-> clock])
     /\ storage' = [storage EXCEPT !.history = saveHistory(history')]
     /\ clock' = clock + 1
     /\ UNCHANGED <<pc, server, questions, filtered, page, starred, controls,
                    manifest, arrays, idx, inflight>>

\* click on a choice of an item of the page; items without an array of
\* choices render no choice elements
ChoiceClick ==
  /\ Mounted
  /\ clock < MaxClock
  /\ \E k \in 1..Len(Rendered) :
       /\ Rendered[k].choices.t = "array"
       /\ \E i \in 0..(Len(Rendered[k].choices.v) - 1) : chooseAnswer(Rendered[k], i)

Next ==
  \/ Start
  \/ ManifestFetchSettles
  \/ ManifestJsonSettles
  \/ ChunkFetchSettles
  \/ ChunkJsonSettles
  \/ InputQ
  \/ ChangeModule
  \/ InputDomain
  \/ ChangeDiff
  \/ Reset
  \/ ShuffleClick
  \/ ReviewClick
  \/ Keydown
  \/ PrevPage
  \/ NextPage
  \/ StarClick
  \/ ChoiceClick

Spec == Init /\ [][Next]_vars

(***************************************************************************)
(* Properties.                                                             *)
(***************************************************************************)
SetOf(seq) == {seq[i] : i \in 1..Len(seq)}

\* the identifiers a stored "starred" value holds, a missing key holding none
IdsOf(doc) == IF doc.kind = "json" THEN SetOf(doc.value) ELSE {}

\* max(1, ceil(n / 10)), from the definition of the ceiling
CeilPages(n) == Max(1, CHOOSE k \in 0..n : k * 10 >= n /\ (k - 1) * 10 < n)

\* C1: in every reachable state the page number is at least 1 and at most
\* totalPages = max(1, ceil(length(filtered) / 10)).
C1_PageInRange == 1 <= page /\ page <= CeilPages(Len(filtered))

\* C1 witness: the last page of a three-page subset is shown
C1_OnLastPage == page = 3 /\ Len(filtered) = BigSize

\* C2: a missing or malformed stored "starred" or "history" value does not
\* fail the session start: the collection starts empty and the session goes
\* on to mount its controls and load the corpus.
C2_StorageFailsSoft ==
  /\ pc # "crashed"
  /\ (Mounted /\ storage.starred.kind # "json") => starred = <<>>
  /\ (Mounted /\ storage.history.kind # "json") => history = <<>>

\* C3: after a failed manifest fetch the loader works from the built-in
\* manifest, requests data/sample.json under the site root, and the session
\* ends with the sample questions as its collection.
C3_FallbackLoadsSample ==
  ManifestFails =>
    /\ pc \in {"chunk_fetch", "chunk_json"} =>
         manifest = FallbackManifest /\ inflight = {"data/sample.json"}
    /\ pc # "failed"
    /\ pc = "done" => questions = normalizeAll(fetch("data/sample.json").body.value)

\* the result of toggling the star of id twice in a row
ToggledTwice(id) == toggle(toggle(starred, id), id)

\* C4 as claimed: two toggles of the same identifier in a row restore the
\* starred-set membership and the stored "starred" value exactly (a missing
\* key read as the empty array, as the session reads it).
C4_DoubleToggleRestoresExactly ==
  Mounted =>
    \A k \in 1..Len(Rendered) :
      /\ SetOf(ToggledTwice(Rendered[k].uId)) = SetOf(starred)
      /\ saveStarred(ToggledTwice(Rendered[k].uId)) = getItemOrEmpty("starred")

\* C4 as amended: two toggles of the same identifier in a row restore the
\* starred-set membership, and the stored "starred" value then holds exactly
\* the identifiers it held before (a missing key holding none); the order of
\* the stored array may differ.
C4_DoubleToggleRestoresMembers ==
  Mounted =>
    \A k \in 1..Len(Rendered) :
      /\ SetOf(ToggledTwice(Rendered[k].uId)) = SetOf(starred)
      /\ IdsOf(saveStarred(ToggledTwice(Rendered[k].uId))) = IdsOf(storage.starred)

\* C4 witness: a starred question is on the page next to an unstarred one,
\* after a toggle has written the stored value
C4_StarredOnPage ==
  /\ Mounted
  /\ storage.starred = JSONstringify(<<Str("q2")>>)
  /\ \E k \in 1..Len(Rendered) : Rendered[k].uId = Str("q2")
  /\ \E k \in 1..Len(Rendered) : Rendered[k].uId = Str("q1")

\* C5: once a choice has been clicked the stored "history" value holds at
\* most 200 records, and when more than 200 attempts have been logged it
\* holds exactly the 200 most recent ones in the order they were made.
C5_HistoryBounded ==
  clock > 0 =>
    /\ storage.history.kind = "json"
    /\ Len(storage.history.value) <= 200
    /\ Len(history) > 200 =>
         /\ Len(storage.history.value) = 200
         /\ \A k \in 1..200 :
              storage.history.value[k] = history[Len(history) - 200 + k]

\* C5 witness: more than 200 attempts are logged, the last by a click
C5_MoreThanCap == clock > 0 /\ Len(history) > 200

\* C6: whenever control is back in the event loop the stored "starred" value
\* holds exactly the identifiers of the in-memory starred set, a missing key
\* holding none.
C6_StoredIsStarred == Mounted => IdsOf(storage.starred) = SetOf(starred)

\* C6 witness: two stars were set and the first of an earlier pair removed
C6_AfterToggles == Mounted /\ starred = <<Str("q3"), Str("q1")>>

\* C7: when the fetch or the parse of a chunk fails the load aborts, and the
\* collection and the filtered subset are empty then and ever after.
C7_NoPartialCorpus == pc = "failed" => questions = <<>> /\ filtered = <<>>

\* C7 witness: the load failed at the second chunk, after the first was read
C7_FailedAfterFirstChunk == pc = "failed" /\ server = "SiteChunkDown"

\* C8: the step that completes the initial load leaves the filtered subset
\* equal to the whole normalized collection, and the page 1.
C8_LoadShowsAll ==
  [][(pc # "done" /\ pc' = "done") => (filtered' = questions' /\ page' = 1)]_vars

\* C8 witness: the load has completed over a search text typed while it was
\* pending; the text would select two of the three questions
C8_LoadedOverTypedFilter ==
  /\ pc = "done"
  /\ server = "SiteOk"
  /\ controls.q = " Lin "
  /\ Len(filtered) = 3

\* s contains t, letter case ignored
ContainsIgnoringCase(s, t) ==
  \E i \in 0..(Len(s) - Len(t)) :
    \A k \in 1..Len(t) : LowerChar(CharAt(s, i + k)) = LowerChar(CharAt(t, k))

\* question x satisfies every non-blank criterion of the controls c
Satisfies(x, c) ==
  /\ c.f_module # "" => (x.module.t = "string" /\ x.module.v = c.f_module)
  /\ c.f_diff # "" => (x.difficulty.t = "string" /\ x.difficulty.v = c.f_diff)
  /\ trim(c.f_domain) # "" =>
       ContainsIgnoringCase(x.primary_class_cd_desc.v, trim(c.f_domain))
  /\ trim(c.q) # "" =>
       \/ ContainsIgnoringCase(x.stem_html.v, trim(c.q))
       \/ ContainsIgnoringCase(x.skill_desc.v, trim(c.q))

FilterChange == InputQ \/ ChangeModule \/ InputDomain \/ ChangeDiff \/ Reset

\* C9: a filter change sets the filtered subset to the questions of the
\* collection that satisfy every non-blank criterion, in their original
\* order, and applying the same criteria again yields the same subset.
C9_FilterSelects ==
  [][FilterChange =>
       /\ filtered' = SelectSeq(questions, LAMBDA x : Satisfies(x, controls'))
       /\ applyFilter(questions', controls') = filtered']_vars

\* C9 witness: three criteria are set and select one question of three
C9_ThreeCriteria ==
  /\ server = "SiteOk"
  /\ controls = [q |-> " Lin ", f_module |-> "math", f_domain |-> "ALG ", f_diff |-> ""]
  /\ Len(questions) = 3
  /\ Len(filtered) = 1

RECURSIVE PagesUpTo(_, _)
PagesUpTo(arr, n) == IF n = 0 THEN <<>> ELSE PagesUpTo(arr, n - 1) \o paginate(arr, n)

\* C10: the pages 1..totalPages of the filtered subset, concatenated in
\* order, are the subset; every page but the last has exactly 10 items and
\* the page after the last is empty.
C10_PagesReconstruct ==
  LET n == CeilPages(Len(filtered))
  IN /\ PagesUpTo(filtered, n) = filtered
     /\ \A p \in 1..(n - 1) : Len(paginate(filtered, p)) = 10
     /\ paginate(filtered, n + 1) = <<>>

\* C10 witness: the second of three pages is shown
C10_MiddlePage == page = 2 /\ Len(filtered) = BigSize /\ Len(Rendered) = 10

\* the shuffle and show-starred actions, by button or by key
ModeAction ==
  \/ Mounted /\ \E rs \in RandomStreams : shufflePractice(rs)
  \/ Mounted /\ showStarred

\* C11: right after every filter change (search text, module, domain,
\* difficulty, reset) and after every shuffle or show-starred action, the
\* page is 1.
C11_ModeChangeResetsPage == [][page' = 1 \/ ~(FilterChange \/ ModeAction)]_vars

\* C11 witness: the module filter has been set on the three-page corpus
\* (which it shortens to two pages) and the first page is shown
C11_FilteredOnFirstPage ==
  /\ page = 1
  /\ controls.f_module = "math"
  /\ Len(questions) = BigSize
  /\ Len(filtered) = BigSize - 1

\* C12: the show-starred action sets the filtered subset to exactly the
\* questions of the full collection whose uId is in the starred set at the
\* time of the action, in the collection's order, whatever the filter
\* criteria are.
C12_ShowStarredSelects ==
  [][(Mounted /\ showStarred) =>
       filtered' = SelectSeq(questions, LAMBDA x : x.uId \in SetOf(starred))]_vars

\* C12 witness: with a search text set, the subset is the starred questions
\* (two of three) and not what the criteria select
C12_StarredOverFilter ==
  /\ pc = "done"
  /\ controls.q # ""
  /\ Len(filtered) = 2
  /\ Len(questions) = 3
  /\ filtered = SelectSeq(questions, LAMBDA x : x.uId \in SetOf(starred))
  /\ filtered # applyFilter(questions, controls)

\* the number of positions of seq that hold v
Count(seq, v) == Cardinality({k \in DOMAIN seq : seq[k] = v})

\* C13: the shuffle action sets the filtered subset to exactly min(10, n)
\* questions taken from distinct positions of the n-question collection, and
\* leaves the collection and its order unchanged.
C13_ShuffleTakesTen ==
  [][\/ /\ questions' = questions
        /\ Len(filtered') = Min(10, Len(questions))
        /\ \A v \in SetOf(filtered') : Count(filtered', v) <= Count(questions, v)
     \/ ~(Mounted /\ \E rs \in RandomStreams : shufflePractice(rs))]_vars

\* C13 witness: ten of the twenty-one questions are shown, the last of the
\* collection among them, with no criterion set
C13_TenOfMany ==
  /\ Len(questions) = BigSize
  /\ Len(filtered) = 10
  /\ controls = [q |-> "", f_module |-> "", f_domain |-> "", f_diff |-> ""]
  /\ questions[BigSize] \in SetOf(filtered)

\* the manifest the site makes loadManifest return
SiteManifest == IF ManifestFails THEN FallbackManifest ELSE fetch(ManifestUrl).body.value

\* the raw records of the first n chunks of manifest m, in manifest order
RECURSIVE ChunksUpTo(_, _)
ChunksUpTo(m, n) ==
  IF n = 0 THEN <<>>
  ELSE ChunksUpTo(m, n - 1) \o fetch(ChunkUrl(m.chunks[n])).body.value

\* the raw records the site serves
RawRecords == ChunksUpTo(SiteManifest, Len(SiteManifest.chunks))

NonEmpty(v) == v.t = "string" /\ v.v # ""

HasId(x) == NonEmpty(x.uId) \/ NonEmpty(x.id) \/ NonEmpty(x.questionId)

FirstId(x) ==
  IF NonEmpty(x.uId) THEN x.uId ELSE IF NonEmpty(x.id) THEN x.id ELSE x.questionId

\* C14: every normalized question has a non-empty uId, which is the raw
\* record's uId, else its id, else its questionId; the raw records whose
\* three identifiers are all empty or absent are left out, so the collection
\* has as many questions as there are raw records less those, in raw order.
C14_IdentifierResolved ==
  pc = "done" =>
    LET kept == SelectSeq(RawRecords, HasId)
    IN /\ Len(questions) = Len(RawRecords) - Cardinality({k \in DOMAIN RawRecords : ~HasId(RawRecords[k])})
       /\ Len(questions) = Len(kept)
       /\ \A k \in DOMAIN questions :
            NonEmpty(questions[k].uId) /\ questions[k].uId = FirstId(kept[k])

\* C14 witness: four raw records were loaded, one of them without identifier
\* and one identified by its questionId
C14_OrphanDropped ==
  /\ pc = "done"
  /\ Len(RawRecords) = 4
  /\ Len(questions) = 3
  /\ ~HasId(RawRecords[3])
  /\ questions[3].uId = RawRecords[4].questionId

\* the first of the values vs that is a non-empty string, else dflt
RECURSIVE FirstNonEmpty(_, _)
FirstNonEmpty(vs, dflt) ==
  IF vs = <<>> THEN dflt
  ELSE IF NonEmpty(Head(vs)) THEN Head(vs) ELSE FirstNonEmpty(Tail(vs), dflt)

\* x carries the legacy fields diff, options, answer_index and a category
\* containing "math", and none of the fields they stand in for
LegacyOnly(x) ==
  /\ x.module = Undefined /\ x.difficulty = Undefined
  /\ x.choices = Undefined /\ x.correct_choice_index = Undefined
  /\ NonEmpty(x.diff) /\ x.options.t = "array" /\ x.answer_index.t = "number"
  /\ NonEmpty(x.category) /\ ContainsIgnoringCase(x.category.v, "math")

\* question q is what the claim says raw record x normalizes to
ResolvedFrom(q, x) ==
  /\ q.difficulty = FirstNonEmpty(<<x.difficulty, x.diff>>, Str(""))
  /\ q.primary_class_cd_desc = FirstNonEmpty(<<x.primary_class_cd_desc, x.domain>>, Str(""))
  /\ q.stem_html = FirstNonEmpty(<<x.stem_html, x.stem, x.question_html>>, Str(""))
  /\ q.questionId = FirstNonEmpty(<<x.questionId, x.id>>, x.uId)
  /\ LegacyOnly(x) =>
       /\ q.module = Str("math")
       /\ q.difficulty = x.diff
       /\ q.choices = x.options
       /\ q.correct_choice_index = x.answer_index
  /\ x.correct_choice_index.t = "number" => q.correct_choice_index = x.correct_choice_index
  /\ q.correct_choice_index = x.answer_index =>
       x.answer_index.t = "number" /\ x.correct_choice_index.t # "number"
  /\ q.correct_choice_index.t \in {"number", "null"}

\* C15: normalization resolves each field to the first non-empty
\* alternative: a record carrying only id, diff, options, answer_index and a
\* category containing "math" in any letter case gets module "math",
\* difficulty = diff, choices = options and correct_choice_index =
\* answer_index; answer_index is used only when it is a number, and a
\* numeric correct_choice_index, 0 included, takes precedence over it.
C15_FieldsResolved ==
  pc = "done" =>
    LET kept == SelectSeq(RawRecords, HasId)
    IN \A k \in DOMAIN questions : k <= Len(kept) => ResolvedFrom(questions[k], kept[k])

\* C15 witness: a legacy-only record and a record whose answer_index is a
\* string were loaded
C15_LegacyLoaded ==
  /\ pc = "done"
  /\ Len(questions) = 2
  /\ LegacyOnly(RawRecords[1])
  /\ questions[1].module = Str("math")
  /\ questions[1].correct_choice_index = Num(1)
  /\ RawRecords[2].answer_index.t = "string"
  /\ questions[2].correct_choice_index = Null

\* C15 witness of the precedence: a record with correct_choice_index 0 and
\* answer_index 1 was loaded
C15_ZeroIndexWins ==
  /\ pc = "done"
  /\ Len(questions) >= 1
  /\ RawRecords[1].correct_choice_index = Num(0)
  /\ RawRecords[1].answer_index = Num(1)
  /\ questions[1].correct_choice_index = Num(0)

\* C16: the chunks are fetched one at a time in manifest order: at most one
\* request is in flight; while chunk idx + 1 is being fetched or parsed, it
\* is the one in flight and the records pushed so far are those of the
\* chunks before it, in manifest order; the collection loaded in the end is
\* made from the concatenation of all the chunk arrays in manifest order.
C16_ChunksInOrder ==
  /\ Cardinality(inflight) <= 1
  /\ pc \in {"chunk_fetch", "chunk_json"} =>
       /\ manifest = SiteManifest
       /\ idx < Len(manifest.chunks)
       /\ inflight = {ChunkUrl(manifest.chunks[idx + 1])}
       /\ arrays = ChunksUpTo(manifest, idx)
  /\ pc = "done" => questions = normalizeAll(RawRecords)

\* C16 witness: the third chunk is being fetched, the twenty records of the
\* first two pushed
C16_ThirdChunkInFlight ==
  /\ pc = "chunk_fetch"
  /\ idx = 2
  /\ Len(arrays) = 2 * pageSize
  /\ inflight = {"data/chunks/part-002.json"}

\* C17: every choice click appends exactly one attempt record to the end of
\* the in-memory history, with id the question's uId and correct true exactly
\* when the clicked position is the question's correct choice index (never
\* for a question without one); no step removes, changes or reorders the
\* records the history already holds.
C17_ClickAppendsAttempt ==
  [][/\ Len(history) <= Len(history')
     /\ history' = history \/ SubSeq(history', 1, Len(history)) = history
     /\ clock' = clock \/
          \A k \in 1..Len(Rendered) :
            Rendered[k].choices.t = "array" =>
              \A i \in 0..(Len(Rendered[k].choices.v) - 1) :
                chooseAnswer(Rendered[k], i) =>
                  LET q == Rendered[k]
                      last == history'[Len(history')]
                  IN /\ Len(history') = Len(history) + 1
                     /\ last.id = q.uId
                     /\ last.correct = (/\ q.correct_choice_index.t = "number"
                                        /\ q.correct_choice_index.v = i)]_vars

\* C17 witness: a right answer, then a wrong one, were recorded in this order
C17_RightThenWrong ==
  /\ Len(history) = 2
  /\ history[1].correct /\ history[1].ts = 0
  /\ ~history[2].correct /\ history[2].ts = 1

\* C17 witness of the question without a correct index: its click was
\* recorded as wrong after the records of earlier sessions
C17_NoIndexAlwaysWrong ==
  /\ Len(questions) = 1
  /\ questions[1].correct_choice_index = Null
  /\ Len(history) = HistoryCap + 1
  /\ ~history[HistoryCap + 1].correct
  /\ history[HistoryCap + 1].ts = 0

\* C18: a star toggle changes only the starred set and the stored "starred"
\* value: the collection, the filtered subset, the page, the history, the
\* stored history and the controls are as before, so a question un-starred
\* while the starred subset is shown stays in the subset.
C18_ToggleFrame ==
  [][starred' = starred \/ ~StarClick \/
       /\ UNCHANGED <<questions, filtered, page, history, controls>>
       /\ storage'.history = storage.history]_vars

\* C18 witness: no criterion is set and nothing is starred, yet the subset
\* on display is one question of three: the starred subset it was taken
\* from has since lost its star
C18_UnstarredStaysListed ==
  /\ pc = "done"
  /\ Len(questions) = 3
  /\ controls = [q |-> "", f_module |-> "", f_domain |-> "", f_diff |-> ""]
  /\ Len(filtered) = 1
  /\ starred = <<>>
  /\ storage.starred = JSONstringify(<<>>)

====
